---- MODULE Spec2Model ----
(***************************************************************************)
(* A model of the flow execution engine of backend/main.py: the WhatsApp   *)
(* webhook handler (handle_whatsapp_webhook), the node executor            *)
(* (execute_flow_node), the history reader (get_chat_history), and the     *)
(* flow and contact CRUD handlers that change the store underneath them.   *)
(* Every await of the source is one atomic step, so                        *)
(* the interleavings of the model are the interleavings of the asyncio     *)
(* event loop, two webhook handlers at a time.  A storage call, the AI     *)
(* call and the delivery call may raise; the source has no try/except      *)
(* around them, so the exception leaves the handler.                       *)
(***************************************************************************)
EXTENDS Integers, Sequences, FiniteSets, TLC

\* ------------------------------------------------------------------ bounds
MaxEvents == 2        \* inbound webhook events (each may run concurrently)
MaxBatch == 2         \* messages in one webhook payload
MaxAdmins == 2        \* flow and contact CRUD requests
MaxPrior == 4         \* log entries the store holds when the service starts
MaxLimit == 2         \* the limits get_chat_history is checked with

\* ------------------------------------------------------------- vocabulary
NULL == "null"        \* Python's None

Events == 1..MaxEvents
Admins == 1..MaxAdmins
Texts == {"hello"}       \* the body of the first message of a payload
LaterTexts == {"more"}   \* the bodies of the messages after it
Names == {"salon"}

HistoryLimit == 10

Node(id, type, message, prompt) ==
    [id |-> id, type |-> type, message |-> message, prompt |-> prompt]
Edge(source, target) == [source |-> source, target |-> target]
NoNode == Node(NULL, NULL, NULL, NULL)

\* A --> B --> C, and a second edge out of A declared after the first.
\* C is a textMessage with an empty message: it produces no reply.
GChain ==
    [nodes |-> << Node("A", "textMessage", "Hi!", NULL),
                  Node("B", "aiResponse", NULL, "greet"),
                  Node("C", "textMessage", "", NULL) >>,
     edges |-> << Edge("A", "B"), Edge("A", "C"), Edge("B", "C") >>]
\* Every node has an incoming edge (A from itself): no trigger node. The
\* edge out of B points at an id that is no node of the graph.
GLoop ==
    [nodes |-> << Node("A", "textMessage", "Ping", NULL),
                  Node("B", "textMessage", "Pong", NULL) >>,
     edges |-> << Edge("A", "A"), Edge("A", "B"), Edge("B", "Z") >>]
\* flow_data = {} : no nodes, no edges.
GEmpty == [nodes |-> << >>, edges |-> << >>]
\* One node of a type the executor does not know, no edge.
GSingle ==
    [nodes |-> << Node("X", "delay", NULL, NULL) >>,
     edges |-> << >>]
\* The first declared node is a target; two nodes (A, D) have no incoming
\* edge; B has no outgoing edge.
GLate ==
    [nodes |-> << Node("B", "textMessage", "Yo", NULL),
                  Node("A", "aiResponse", NULL, ""),
                  Node("D", "textMessage", "Bye", NULL) >>,
     edges |-> << Edge("A", "B"), Edge("D", "B") >>]

\* P --> Q --> A: P is of a type the executor does not know and Q is a
\* textMessage without a message; neither produces a reply, both have an
\* outgoing edge.
GPass ==
    [nodes |-> << Node("P", "delay", NULL, NULL),
                  Node("Q", "textMessage", NULL, NULL),
                  Node("A", "textMessage", "End", NULL) >>,
     edges |-> << Edge("P", "Q"), Edge("Q", "A") >>]

Graphs == {GChain, GLoop, GEmpty, GSingle, GLate, GPass}

\* ------------------------------------------------- pure parts of the code

\* `if reply_text:` / `if current_node_id` : None and "" are falsy.
Truthy(s) == s # NULL /\ s # ""

\* next((n for n in nodes if n.get('id') == current_node_id), None)
RECURSIVE FindFrom(_, _, _)
FindFrom(nodes, id, i) ==
    IF i > Len(nodes) THEN NoNode
    ELSE IF nodes[i].id = id THEN nodes[i]
    ELSE FindFrom(nodes, id, i + 1)

\* ... if current_node_id else None
FindCurrentNode(flow_data, current_node_id) ==
    IF Truthy(current_node_id) THEN FindFrom(flow_data.nodes, current_node_id, 1)
    ELSE NoNode

\* {edge.get('target') for edge in flow_data.get('edges', [])}
TargetNodes(flow_data) ==
    {flow_data.edges[i].target : i \in DOMAIN flow_data.edges}

\* next((n for n in nodes if n.get('id') not in target_nodes), None)
RECURSIVE TriggerFrom(_, _, _)
TriggerFrom(nodes, targets, i) ==
    IF i > Len(nodes) THEN NoNode
    ELSE IF nodes[i].id \notin targets THEN nodes[i]
    ELSE TriggerFrom(nodes, targets, i + 1)

\* mutants of TriggerNode: the last node without an incoming edge instead of
\* the first; the first node of the graph when none is without one
RECURSIVE TriggerBack(_, _, _)
TriggerBack(nodes, targets, i) ==
    IF i < 1 THEN NoNode
    ELSE IF nodes[i].id \notin targets THEN nodes[i]
    ELSE TriggerBack(nodes, targets, i - 1)

TriggerNodeLast(flow_data) ==
    TriggerBack(flow_data.nodes, TargetNodes(flow_data), Len(flow_data.nodes))

TriggerNodeOrFirst(flow_data) ==
    LET n == TriggerFrom(flow_data.nodes, TargetNodes(flow_data), 1)
    IN  IF n = NoNode /\ flow_data.nodes # << >> THEN flow_data.nodes[1] ELSE n

TriggerNode(flow_data) ==
    TriggerFrom(flow_data.nodes, TargetNodes(flow_data), 1)

\* mutant of ResolveNode: no fallback to the trigger node when the saved
\* position is not a node of the graph
ResolveNodeStrict(flow_data, current_node_id) ==
    IF Truthy(current_node_id)
    THEN FindFrom(flow_data.nodes, current_node_id, 1)
    ELSE TriggerNode(flow_data)

\* The node the handler hands to execute_flow_node (NoNode: none).
ResolveNode(flow_data, current_node_id) ==
    LET current_node == FindCurrentNode(flow_data, current_node_id)
    IN  IF current_node = NoNode THEN TriggerNode(flow_data) ELSE current_node

\* for edge in edges: if edge.get('source') == node_id: ...; break
RECURSIVE NextFrom(_, _, _)
NextFrom(edges, node_id, i) ==
    IF i > Len(edges) THEN NULL
    ELSE IF edges[i].source = node_id THEN edges[i].target
    ELSE NextFrom(edges, node_id, i + 1)

\* mutants of NextNodeId: the last matching edge wins (no break); the edge
\* scan is left out
RECURSIVE NextBack(_, _, _)
NextBack(edges, node_id, i) ==
    IF i < 1 THEN NULL
    ELSE IF edges[i].source = node_id THEN edges[i].target
    ELSE NextBack(edges, node_id, i - 1)

NextNodeIdLast(flow_data, node_id) ==
    NextBack(flow_data.edges, node_id, Len(flow_data.edges))

NextNodeIdNone(flow_data, node_id) == NULL

NextNodeId(flow_data, node_id) == NextFrom(flow_data.edges, node_id, 1)

\* get_openai_response: the mocked completion text.
AIReply(prompt) ==
    "AI:'" \o (IF Truthy(prompt) THEN prompt ELSE "...") \o "'"

\* -------------------------------------------------------------- the store
Contact(id, phone, node, at) ==
    [id |-> id, phone_number |-> phone, current_flow_node_id |-> node,
     last_active |-> at]
NoContact == Contact(0, NULL, NULL, 0)

MessageLog(contact_id, from, direction, text, at) ==
    [contact_id |-> contact_id, from_number |-> from, direction |-> direction,
     text |-> text, timestamp |-> at]

Flow(id, name, flow_data, is_active) ==
    [id |-> id, name |-> name, flow_data |-> flow_data, is_active |-> is_active]
NoFlow == Flow(0, NULL, GEmpty, FALSE)

\* db.contacts.find_one({"phone_number": from_number}): the first match in
\* natural (insertion) order, NoContact when there is none.
RECURSIVE ContactByPhoneFrom(_, _, _)
ContactByPhoneFrom(docs, phone, i) ==
    IF i > Len(docs) THEN NoContact
    ELSE IF docs[i].phone_number = phone THEN docs[i]
    ELSE ContactByPhoneFrom(docs, phone, i + 1)

FindContactByPhone(docs, phone) == ContactByPhoneFrom(docs, phone, 1)

\* db.contacts.find_one({"_id": id}); contacts are never deleted and the
\* i-th inserted contact has _id i.
FindContactById(docs, id) ==
    IF id \in DOMAIN docs THEN docs[id] ELSE NoContact

\* db.flows.find_one({"is_active": True})
RECURSIVE ActiveFlowFrom(_, _)
ActiveFlowFrom(docs, i) ==
    IF i > Len(docs) THEN NoFlow
    ELSE IF docs[i].is_active THEN docs[i]
    ELSE ActiveFlowFrom(docs, i + 1)

\* mutant of FindActiveFlow: the is_active filter is left out
FindAnyFlow(docs) == IF docs = << >> THEN NoFlow ELSE docs[1]

FindActiveFlow(docs) == ActiveFlowFrom(docs, 1)

\* mutant of UpdateContactState: current_flow_node_id is missing from the $set
TouchContact(docs, id, next_node_id, at) ==
    [i \in DOMAIN docs |->
        IF docs[i].id = id THEN [docs[i] EXCEPT !.last_active = at] ELSE docs[i]]

\* mutant of UpdateContactState: the _id filter is missing from the update
UpdateEveryContact(docs, id, next_node_id, at) ==
    [i \in DOMAIN docs |->
        [docs[i] EXCEPT !.current_flow_node_id = next_node_id, !.last_active = at]]

\* db.contacts.update_one({"_id": id}, {"$set": {current_flow_node_id, last_active}})
UpdateContactState(docs, id, next_node_id, at) ==
    [i \in DOMAIN docs |->
        IF docs[i].id = id
        THEN [docs[i] EXCEPT !.current_flow_node_id = next_node_id,
                             !.last_active = at]
        ELSE docs[i]]

\* ------------------------------------------------------ get_chat_history
Reverse(s) == [i \in 1..Len(s) |-> s[Len(s) + 1 - i]]

Take(s, n) == SubSeq(s, 1, IF n < Len(s) THEN n ELSE Len(s))

RemoveAt(s, i) == SubSeq(s, 1, i - 1) \o SubSeq(s, i + 1, Len(s))

\* index of the entry with the greatest timestamp (the first such entry)
RECURSIVE NewestFrom(_, _, _)
NewestFrom(logs, i, best) ==
    IF i > Len(logs) THEN best
    ELSE IF logs[i].timestamp > logs[best].timestamp
         THEN NewestFrom(logs, i + 1, i)
         ELSE NewestFrom(logs, i + 1, best)

\* .sort("timestamp", -1)
RECURSIVE SortNewestFirst(_)
SortNewestFirst(logs) ==
    IF logs = << >> THEN << >>
    ELSE LET k == NewestFrom(logs, 1, 1)
         IN  << logs[k] >> \o SortNewestFirst(RemoveAt(logs, k))

HistoryEntry(log) ==
    [role |-> IF log.direction = "inbound" THEN "user" ELSE "assistant",
     content |-> log.text]

\* mutant of GetChatHistory: the final history[::-1] is missing
GetChatHistoryNewestFirst(logs, contact_id, limit) ==
    LET mine == SelectSeq(logs, LAMBDA l : l.contact_id = contact_id)
        cursor == Take(SortNewestFirst(mine), limit)
    IN  [i \in 1..Len(cursor) |-> HistoryEntry(cursor[i])]

GetChatHistory(logs, contact_id, limit) ==
    LET mine == SelectSeq(logs, LAMBDA l : l.contact_id = contact_id)
        cursor == Take(SortNewestFirst(mine), limit)
        history == [i \in 1..Len(cursor) |-> HistoryEntry(cursor[i])]
    IN  Reverse(history)

\* ------------------------------------------------------------------ state
VARIABLES
    contacts,       \* db.contacts, in insertion order
    flows,          \* db.flows, in insertion order
    message_logs,   \* db.message_logs, in insertion order
    clock,          \* what datetime.utcnow() returns next
    next_flow_id,   \* the _id the next inserted flow gets
    ev,             \* per webhook event: the handler's position and locals
    adm             \* per flow CRUD request: the handler's position and locals

vars == << contacts, flows, message_logs, clock, next_flow_id, ev, adm >>

\* A webhook handler that has not been entered yet.  calls lists the
\* collaborator calls the handler has made so far, updated_at is the
\* utcnow() it passed to update_one.
IdleEvent ==
    [pc |-> "idle", from_number |-> NULL, text |-> NULL, contact |-> NoContact,
     inserted_id |-> 0, flow_data |-> GEmpty, node |-> NoNode,
     reply_text |-> NULL, history |-> << >>, next_node_id |-> NULL,
     updated_at |-> 0, response |-> "none", calls |-> << >>]

IdleAdmin ==
    [pc |-> "idle", op |-> "none", id |-> 0, update_data |-> << >>,
     response |-> "none"]

\* The webhook payloads: up to MaxBatch messages {from, body}.
RECURSIVE Payloads(_, _)
Payloads(phones, n) ==
    IF n = 0 THEN {<< >>}
    ELSE LET shorter == Payloads(phones, n - 1)
         IN  shorter \cup
             {Append(q, [from |-> f, body |-> b]) :
                 q \in {r \in shorter : Len(r) = n - 1}, f \in phones,
                 b \in IF n = 1 THEN Texts ELSE LaterTexts}

\* The contact positions the store may hold when the service starts.
InitPositions == {NULL, "A", "B"}

InitContacts ==
    {<< >>, << Contact(1, "+2", "A", 0), Contact(2, "+1", "B", 0) >>}
    \cup {<< Contact(1, "+1", n, 0) >> : n \in InitPositions}

InitFlows ==
    {<< >>, << Flow(1, "salon", GChain, FALSE) >>,
     << Flow(1, "salon", GChain, FALSE), Flow(2, "salon", GLate, TRUE) >>}
    \cup {<< Flow(1, "salon", g, TRUE) >> : g \in Graphs}

Init ==
    /\ contacts \in InitContacts
    /\ flows \in InitFlows
    /\ message_logs = << >>
    /\ clock = 1
    /\ next_flow_id = Len(flows) + 1
    /\ ev = [e \in Events |-> IdleEvent]
    /\ adm = [a \in Admins |-> IdleAdmin]

\* --------------------------------------------- handle_whatsapp_webhook
Called(e, what) == Append(ev[e].calls, what)

\* The handler raised: FastAPI answers 500 (503 from get_database).
Raise(e, what) ==
    ev' = [ev EXCEPT ![e].pc = "done", ![e].response = "error",
                     ![e].calls = Called(e, what)]

\* Events enter the handler in slot order, and the event loop of the model
\* has at most two webhook handlers in flight: the next one is entered once
\* all but the latest have returned.
MayStart(e) ==
    /\ ev[e].pc = "idle"
    /\ \A d \in Events : d < e => ev[d].pc # "idle"
    /\ \A d \in Events : d < e - 1 => ev[d].pc = "done"

\* message = payload.messages[0];
\* contact = await db.contacts.find_one({"phone_number": from_number})
WebhookFindContact(e, phones) ==
    /\ MayStart(e)
    /\ \E payload \in Payloads(phones, MaxBatch) :
          IF payload = << >>
          THEN Raise(e, "IndexError")
          ELSE LET found == FindContactByPhone(contacts, payload[1].from)
               IN  ev' = [ev EXCEPT
                      ![e].from_number = payload[1].from,
                      ![e].text = payload[1].body,
                      ![e].contact = found,
                      ![e].calls = Called(e, "find_contact"),
                      ![e].pc = IF found = NoContact THEN "insert_contact"
                                ELSE "log_inbound"]
    /\ UNCHANGED << contacts, flows, message_logs, clock, next_flow_id, adm >>

\* new_contact_result = await db.contacts.insert_one(new_contact_data)
InsertContact(e) ==
    /\ ev[e].pc = "insert_contact"
    /\ contacts' = Append(contacts,
          Contact(Len(contacts) + 1, ev[e].from_number, NULL, clock))
    /\ clock' = clock + 1
    /\ ev' = [ev EXCEPT ![e].inserted_id = Len(contacts) + 1,
                        ![e].calls = Called(e, "insert_contact"),
                        ![e].pc = "refetch_contact"]
    /\ UNCHANGED << flows, message_logs, next_flow_id, adm >>

\* contact = await db.contacts.find_one({"_id": new_contact_result.inserted_id})
RefetchContact(e) ==
    /\ ev[e].pc = "refetch_contact"
    /\ ev' = [ev EXCEPT ![e].contact = FindContactById(contacts, ev[e].inserted_id),
                        ![e].calls = Called(e, "find_contact"),
                        ![e].pc = "log_inbound"]
    /\ UNCHANGED << contacts, flows, message_logs, clock, next_flow_id, adm >>

\* mutant of LogInbound: the entry is not appended
LogInboundSkipped(e) ==
    /\ ev[e].pc = "log_inbound"
    /\ ev' = [ev EXCEPT ![e].calls = Called(e, "log_inbound"),
                        ![e].pc = "find_flow"]
    /\ UNCHANGED << contacts, flows, message_logs, clock, next_flow_id, adm >>

\* await log_message(db, contact.id, from_number, "inbound", text)
LogInbound(e) ==
    /\ ev[e].pc = "log_inbound"
    /\ message_logs' = Append(message_logs,
          MessageLog(ev[e].contact.id, ev[e].from_number, "inbound",
                     ev[e].text, clock))
    /\ clock' = clock + 1
    /\ ev' = [ev EXCEPT ![e].calls = Called(e, "log_inbound"),
                        ![e].pc = "find_flow"]
    /\ UNCHANGED << contacts, flows, next_flow_id, adm >>

\* mutants of EnterNode: the reply is sent without the `if reply_text:`; a
\* node without a reply ends the handler before the contact is written
EnterNodeAlwaysSends(e, flow_data, node) ==
    LET reply == IF node.type = "textMessage" THEN node.message ELSE NULL
    IN  [ev[e] EXCEPT
           !.flow_data = flow_data,
           !.node = node,
           !.reply_text = reply,
           !.calls = Called(e, "find_flow"),
           !.pc = IF node.type = "aiResponse" THEN "history" ELSE "send"]

EnterNodeNoReplyEnds(e, flow_data, node) ==
    LET reply == IF node.type = "textMessage" THEN node.message ELSE NULL
    IN  [ev[e] EXCEPT
           !.flow_data = flow_data,
           !.node = node,
           !.reply_text = reply,
           !.calls = Called(e, "find_flow"),
           !.response = IF node.type = "aiResponse" \/ Truthy(reply)
                        THEN "none" ELSE "processed",
           !.pc = IF node.type = "aiResponse" THEN "history"
                  ELSE IF Truthy(reply) THEN "send"
                  ELSE "done"]

\* execute_flow_node up to its first await: the reply of a textMessage node
\* is its message, an aiResponse node first reads the history, any other
\* type has no reply.
EnterNode(e, flow_data, node) ==
    LET reply == IF node.type = "textMessage" THEN node.message ELSE NULL
    IN  [ev[e] EXCEPT
           !.flow_data = flow_data,
           !.node = node,
           !.reply_text = reply,
           !.calls = Called(e, "find_flow"),
           !.pc = IF node.type = "aiResponse" THEN "history"
                  ELSE IF Truthy(reply) THEN "send"
                  ELSE "update"]

\* active_flow = await db.flows.find_one({"is_active": True}), then the
\* resolution of the node to execute.
FindFlowAndResolve(e) ==
    /\ ev[e].pc = "find_flow"
    /\ LET active_flow == FindActiveFlow(flows)
           flow_data == active_flow.flow_data
           node == ResolveNode(flow_data, ev[e].contact.current_flow_node_id)
       IN  ev' = [ev EXCEPT ![e] =
              IF active_flow = NoFlow
              THEN [ev[e] EXCEPT !.pc = "done", !.response = "no_active_flow",
                                 !.calls = Called(e, "find_flow")]
              ELSE IF node = NoNode
              THEN [ev[e] EXCEPT !.pc = "done", !.response = "no_trigger_node",
                                 !.flow_data = flow_data,
                                 !.calls = Called(e, "find_flow")]
              ELSE EnterNode(e, flow_data, node)]
    /\ UNCHANGED << contacts, flows, message_logs, clock, next_flow_id, adm >>

\* history = await get_chat_history(db, contact.id)
ReadHistory(e) ==
    /\ ev[e].pc = "history"
    /\ ev' = [ev EXCEPT
          ![e].history = GetChatHistory(message_logs, ev[e].contact.id, HistoryLimit),
          ![e].calls = Called(e, "history"),
          ![e].pc = "ai"]
    /\ UNCHANGED << contacts, flows, message_logs, clock, next_flow_id, adm >>

\* reply_text = await get_openai_response(prompt, history)
AIComplete(e) ==
    /\ ev[e].pc = "ai"
    /\ LET reply == AIReply(ev[e].node.prompt)
       IN  ev' = [ev EXCEPT ![e].reply_text = reply,
                            ![e].calls = Called(e, "ai"),
                            ![e].pc = IF Truthy(reply) THEN "send" ELSE "update"]
    /\ UNCHANGED << contacts, flows, message_logs, clock, next_flow_id, adm >>

\* await send_whatsapp_reply(contact.phone_number, reply_text)
SendReply(e) ==
    /\ ev[e].pc = "send"
    /\ ev' = [ev EXCEPT ![e].calls = Called(e, "send"),
                        ![e].pc = "log_outbound"]
    /\ UNCHANGED << contacts, flows, message_logs, clock, next_flow_id, adm >>

\* await log_message(db, contact.id, contact.phone_number, "outbound", reply_text)
LogOutbound(e) ==
    /\ ev[e].pc = "log_outbound"
    /\ message_logs' = Append(message_logs,
          MessageLog(ev[e].contact.id, ev[e].contact.phone_number, "outbound",
                     ev[e].reply_text, clock))
    /\ clock' = clock + 1
    /\ ev' = [ev EXCEPT ![e].calls = Called(e, "log_outbound"),
                        ![e].pc = "update"]
    /\ UNCHANGED << contacts, flows, next_flow_id, adm >>

\* mutant of UpdateContact: the edges are looked up in the flow that is
\* active now, not in the flow_data the handler was given
UpdateContactRereads(e) ==
    /\ ev[e].pc = "update"
    /\ LET next_node_id == NextNodeId(FindActiveFlow(flows).flow_data, ev[e].node.id)
       IN  /\ contacts' = UpdateContactState(contacts, ev[e].contact.id,
                                             next_node_id, clock)
           /\ ev' = [ev EXCEPT ![e].next_node_id = next_node_id,
                               ![e].updated_at = clock,
                               ![e].calls = Called(e, "update"),
                               ![e].response = "processed",
                               ![e].pc = "done"]
    /\ clock' = clock + 1
    /\ UNCHANGED << flows, message_logs, next_flow_id, adm >>

\* The edge scan and await db.contacts.update_one(...); the handler returns
\* {"status": "ok", "message_processed": True}.
UpdateContact(e) ==
    /\ ev[e].pc = "update"
    /\ LET next_node_id == NextNodeId(ev[e].flow_data, ev[e].node.id)
       IN  /\ contacts' = UpdateContactState(contacts, ev[e].contact.id,
                                             next_node_id, clock)
           /\ ev' = [ev EXCEPT ![e].next_node_id = next_node_id,
                               ![e].updated_at = clock,
                               ![e].calls = Called(e, "update"),
                               ![e].response = "processed",
                               ![e].pc = "done"]
    /\ clock' = clock + 1
    /\ UNCHANGED << flows, message_logs, next_flow_id, adm >>

\* A store call raises (the store is unavailable): nothing is written by the
\* call and the exception leaves the handler.
StorePcs ==
    {"insert_contact", "refetch_contact", "log_inbound", "find_flow",
     "history", "log_outbound", "update"}

StorageFailure(e) ==
    /\ \/ MayStart(e)
       \/ ev[e].pc \in StorePcs
    /\ Raise(e, "StorageUnavailable")
    /\ UNCHANGED << contacts, flows, message_logs, clock, next_flow_id, adm >>

\* The AI completion or the delivery call raises (failure or timeout).
UpstreamFailure(e) ==
    /\ ev[e].pc \in {"ai", "send"}
    /\ Raise(e, "UpstreamServiceFailure")
    /\ UNCHANGED << contacts, flows, message_logs, clock, next_flow_id, adm >>

\* ----------------------------------------------------- flow CRUD handlers
FlowIds == 1..(MaxAdmins + 1)

\* The bodies of the PUT requests: update_data = model_dump(exclude_unset=True).
UpdateDatas ==
    {[name |-> "renamed"], [is_active |-> TRUE], [is_active |-> FALSE]}
    \cup {[flow_data |-> g] : g \in Graphs}
    \cup {[flow_data |-> GSingle, is_active |-> TRUE]}

\* update_many({"is_active": True, [_id != except]}, {"$set": {"is_active": False}})
Deactivate(docs, except) ==
    [i \in DOMAIN docs |->
        IF docs[i].is_active /\ docs[i].id # except
        THEN [docs[i] EXCEPT !.is_active = FALSE]
        ELSE docs[i]]

\* update_one({"_id": id}, {"$set": update_data})
SetFields(docs, id, update_data) ==
    [i \in DOMAIN docs |->
        IF docs[i].id = id
        THEN [f \in DOMAIN docs[i] |->
                 IF f \in DOMAIN update_data THEN update_data[f] ELSE docs[i][f]]
        ELSE docs[i]]

HasFlow(docs, id) == \E i \in DOMAIN docs : docs[i].id = id

\* delete_one({"_id": id})
DeleteById(docs, id) == SelectSeq(docs, LAMBDA d : d.id # id)

\* The handler returned: its locals are gone, its answer is on the wire.
Answered(a, response) == [IdleAdmin EXCEPT !.pc = "done", !.response = response]

WantsActive(update_data) ==
    "is_active" \in DOMAIN update_data /\ update_data.is_active

\* create_flow with is_active: the update_many before the insert
CreateFlowDeactivate(a) ==
    /\ adm[a].pc = "idle"
    /\ \E n \in Names, g \in Graphs :
          adm' = [adm EXCEPT ![a].op = "create",
                             ![a].update_data = Flow(0, n, g, TRUE),
                             ![a].pc = "create_insert"]
    /\ flows' = Deactivate(flows, 0)
    /\ UNCHANGED << contacts, message_logs, clock, next_flow_id, ev >>

\* new_flow = await db.flows.insert_one(flow_dict)
CreateFlowInsert(a) ==
    /\ \E doc \in (IF adm[a].pc = "create_insert" THEN {adm[a].update_data}
                   ELSE IF adm[a].pc = "idle"
                   THEN {Flow(0, n, g, FALSE) : n \in Names, g \in Graphs}
                   ELSE {}) :
          /\ flows' = Append(flows, [doc EXCEPT !.id = next_flow_id])
          /\ adm' = [adm EXCEPT ![a].op = "create", ![a].id = next_flow_id,
                                ![a].update_data = doc,
                                ![a].pc = "create_fetch"]
    /\ next_flow_id' = next_flow_id + 1
    /\ UNCHANGED << contacts, message_logs, clock, ev >>

\* created_flow = await db.flows.find_one({"_id": new_flow.inserted_id});
\* ChatbotFlowInDB(**None) raises when the flow is gone.
CreateFlowFetch(a) ==
    /\ adm[a].pc = "create_fetch"
    /\ adm' = [adm EXCEPT ![a] = Answered(a,
                 IF HasFlow(flows, adm[a].id) THEN "created" ELSE "error")]
    /\ UNCHANGED << contacts, flows, message_logs, clock, next_flow_id, ev >>

\* update_flow with is_active true: the update_many before the update_one
UpdateFlowDeactivate(a) ==
    /\ adm[a].pc = "idle"
    /\ \E id \in FlowIds, u \in UpdateDatas :
          /\ WantsActive(u)
          /\ flows' = Deactivate(flows, id)
          /\ adm' = [adm EXCEPT ![a].op = "update", ![a].id = id,
                                ![a].update_data = u,
                                ![a].pc = "update_set"]
    /\ UNCHANGED << contacts, message_logs, clock, next_flow_id, ev >>

\* result = await db.flows.update_one(...); 404 when nothing matched
UpdateFlowSet(a) ==
    /\ \E r \in (IF adm[a].pc = "update_set"
                 THEN {[id |-> adm[a].id, u |-> adm[a].update_data]}
                 ELSE IF adm[a].pc = "idle"
                 THEN {[id |-> id, u |-> u] :
                         id \in FlowIds, u \in {v \in UpdateDatas : ~WantsActive(v)}}
                 ELSE {}) :
          /\ flows' = SetFields(flows, r.id, r.u)
          /\ adm' = [adm EXCEPT ![a] =
                IF HasFlow(flows, r.id)
                THEN [adm[a] EXCEPT !.op = "update", !.id = r.id,
                                    !.update_data = r.u, !.pc = "update_fetch"]
                ELSE Answered(a, "not_found")]
    /\ UNCHANGED << contacts, message_logs, clock, next_flow_id, ev >>

\* updated_flow = await db.flows.find_one({"_id": ObjectId(id)})
UpdateFlowFetch(a) ==
    /\ adm[a].pc = "update_fetch"
    /\ adm' = [adm EXCEPT ![a] = Answered(a,
                 IF HasFlow(flows, adm[a].id) THEN "updated" ELSE "error")]
    /\ UNCHANGED << contacts, flows, message_logs, clock, next_flow_id, ev >>

\* result = await db.flows.delete_one({"_id": ObjectId(id)})
DeleteFlow(a) ==
    /\ adm[a].pc = "idle"
    /\ \E id \in FlowIds :
          /\ flows' = DeleteById(flows, id)
          /\ adm' = [adm EXCEPT ![a] = Answered(a,
                   IF HasFlow(flows, id) THEN "deleted" ELSE "not_found")]
    /\ UNCHANGED << contacts, message_logs, clock, next_flow_id, ev >>

AdminStep(a) ==
    \/ CreateFlowDeactivate(a)
    \/ CreateFlowInsert(a)
    \/ CreateFlowFetch(a)
    \/ UpdateFlowDeactivate(a)
    \/ UpdateFlowSet(a)
    \/ UpdateFlowFetch(a)
    \/ DeleteFlow(a)

EventStep(e) ==
    \/ WebhookFindContact(e, {"+1"})
    \/ InsertContact(e)
    \/ RefetchContact(e)
    \/ LogInbound(e)
    \/ FindFlowAndResolve(e)
    \/ ReadHistory(e)
    \/ AIComplete(e)
    \/ SendReply(e)
    \/ LogOutbound(e)
    \/ UpdateContact(e)
    \/ StorageFailure(e)
    \/ UpstreamFailure(e)

\* The engine: webhook events against the flows the store holds.
Next == \E e \in Events : EventStep(e)

Spec == Init /\ [][Next]_vars

\* The event loop runs every handler that is ready: a handler that can take
\* its next step eventually takes it.
FairSpec == Spec /\ \A e \in Events : WF_vars(EventStep(e))

\* The engine while one flow CRUD request edits the flows underneath it.
FlowsNext ==
    \/ \E e \in Events : EventStep(e)
    \/ AdminStep(1)

\* It starts with an active flow and no contact, or one whose position is
\* already saved.
InitEdits ==
    /\ Init
    /\ contacts \in {<< >>} \cup {<< Contact(1, "+1", n, 0) >> : n \in InitPositions}
    /\ flows \in {<< Flow(1, "salon", GChain, FALSE), Flow(2, "salon", GLate, TRUE) >>,
                  << Flow(1, "salon", GLoop, TRUE) >>,
                  << Flow(1, "salon", GPass, TRUE) >>}

SpecFlows == InitEdits /\ [][FlowsNext]_vars

\* The flow CRUD layer alone: its requests in any interleaving.
AdminNext == \E a \in Admins : AdminStep(a)

SpecAdmin == Init /\ [][AdminNext]_vars

\* One flow CRUD request on its own, against a store with an active flow.
InitActive ==
    /\ Init
    /\ \E i \in DOMAIN flows : flows[i].is_active

SpecUpdate == InitActive /\ [][AdminStep(1)]_vars

\* ------------------------------------- get_chat_history over a stored log
\* The text of the entry logged at time t.
PriorTexts == << "one", "two", "three", "four", "five" >>

\* The logs of up to n entries of two contacts, logged at different times,
\* in any insertion order.
RECURSIVE PriorLogs(_)
PriorLogs(n) ==
    IF n = 0 THEN {<< >>}
    ELSE LET shorter == PriorLogs(n - 1)
         IN  shorter \cup UNION {
                {Append(q, MessageLog(c, IF c = 1 THEN "+2" ELSE "+1", d,
                                      PriorTexts[t], t)) :
                    c \in {1, 2}, d \in {"inbound", "outbound"},
                    t \in (1..MaxPrior) \ {q[i].timestamp : i \in DOMAIN q}} :
                q \in {r \in shorter : Len(r) = n - 1}}

InitHistory ==
    /\ contacts = << Contact(1, "+2", NULL, 0), Contact(2, "+1", NULL, 0) >>
    /\ flows = << Flow(1, "salon", GLate, TRUE) >>
    /\ message_logs \in PriorLogs(MaxPrior)
    /\ clock = MaxPrior + 1
    /\ next_flow_id = 2
    /\ ev = [e \in Events |-> IdleEvent]
    /\ adm = [a \in Admins |-> IdleAdmin]

Limits == 1..MaxLimit

\* history = await get_chat_history(db, contact_id, limit), on its own
HistoryCall(e, contact_id, limit) ==
    /\ ev[e].pc = "idle"
    /\ ev' = [ev EXCEPT
          ![e].contact = FindContactById(contacts, contact_id),
          ![e].history = GetChatHistory(message_logs, contact_id, limit),
          ![e].calls = Called(e, "history"),
          ![e].pc = "done"]
    /\ UNCHANGED << contacts, flows, message_logs, clock, next_flow_id, adm >>

HistoryNext ==
    \E e \in Events, contact_id \in DOMAIN contacts, limit \in Limits :
        HistoryCall(e, contact_id, limit)

SpecHistory == InitHistory /\ [][HistoryNext]_vars

\* ---------------------------------------------------------- create_contact
Phones == {"+1", "+2"}

\* existing_contact = await db.contacts.find_one({"phone_number": ...});
\* 400 when there is one
CreateContactFind(a) ==
    /\ adm[a].pc = "idle"
    /\ \E phone \in Phones :
          adm' = [adm EXCEPT ![a] =
             IF FindContactByPhone(contacts, phone) # NoContact
             THEN Answered(a, "exists")
             ELSE [adm[a] EXCEPT !.op = "create_contact",
                                 !.update_data = [phone_number |-> phone],
                                 !.pc = "contact_insert"]]
    /\ UNCHANGED << contacts, flows, message_logs, clock, next_flow_id, ev >>

\* new_contact = await db.contacts.insert_one(contact_dict)
CreateContactInsert(a) ==
    /\ adm[a].pc = "contact_insert"
    /\ contacts' = Append(contacts,
          Contact(Len(contacts) + 1, adm[a].update_data.phone_number, NULL, clock))
    /\ clock' = clock + 1
    /\ adm' = [adm EXCEPT ![a].id = Len(contacts) + 1, ![a].pc = "contact_fetch"]
    /\ UNCHANGED << flows, message_logs, next_flow_id, ev >>

\* created_contact = await db.contacts.find_one({"_id": ...}); 500 when None
CreateContactFetch(a) ==
    /\ adm[a].pc = "contact_fetch"
    /\ adm' = [adm EXCEPT ![a] = Answered(a,
                 IF FindContactById(contacts, adm[a].id) # NoContact
                 THEN "created" ELSE "error")]
    /\ UNCHANGED << contacts, flows, message_logs, clock, next_flow_id, ev >>

ContactStep(a) ==
    \/ CreateContactFind(a)
    \/ CreateContactInsert(a)
    \/ CreateContactFetch(a)

\* The webhook handler for events of either phone number.
ContactsEventStep(e) ==
    \/ WebhookFindContact(e, Phones)
    \/ InsertContact(e)
    \/ RefetchContact(e)
    \/ LogInbound(e)
    \/ FindFlowAndResolve(e)
    \/ ReadHistory(e)
    \/ AIComplete(e)
    \/ SendReply(e)
    \/ LogOutbound(e)
    \/ UpdateContact(e)
    \/ StorageFailure(e)
    \/ UpstreamFailure(e)

\* The engine with events of two phone numbers and one create_contact
\* request, against one active flow.
ContactsNext ==
    \/ \E e \in Events : ContactsEventStep(e)
    \/ ContactStep(1)

InitTwoPhones ==
    /\ Init
    /\ contacts \in {<< >>, << Contact(1, "+2", "A", 0), Contact(2, "+1", "B", 0) >>}
    /\ flows \in {<< Flow(1, "salon", GChain, TRUE) >>,
                  << Flow(1, "salon", GChain, FALSE), Flow(2, "salon", GLate, TRUE) >>}

SpecContacts == InitTwoPhones /\ [][ContactsNext]_vars

\* ------------------------------------------------- vocabulary of the claims
Has(calls, what) == \E i \in DOMAIN calls : calls[i] = what

Count(calls, what) == Cardinality({i \in DOMAIN calls : calls[i] = what})

Done(e) == ev[e].pc = "done"

\* The handler returned {"status": "ok", "message_processed": True}.
Processed(e) == Done(e) /\ ev[e].response = "processed"

\* The handler ended by the exception `what`.
Failed(e, what) ==
    /\ Done(e)
    /\ ev[e].response = "error"
    /\ ev[e].calls[Len(ev[e].calls)] = what

\* The handler has read the active flow, and there was one.
Resolved(e) == Has(ev[e].calls, "find_flow") /\ ev[e].response # "no_active_flow"

\* The position the handler read with the contact.
ReadPosition(e) == ev[e].contact.current_flow_node_id

NodesOf(g) == {g.nodes[i] : i \in DOMAIN g.nodes}

HasNode(g, id) == \E i \in DOMAIN g.nodes : g.nodes[i].id = id

HasIncoming(g, id) == \E j \in DOMAIN g.edges : g.edges[j].target = id

HasOutgoing(g, id) == \E j \in DOMAIN g.edges : g.edges[j].source = id

HasTrigger(g) == \E i \in DOMAIN g.nodes : ~HasIncoming(g, g.nodes[i].id)

\* n is the first node of g, in declaration order, without an incoming edge.
IsTriggerOf(g, n) ==
    \E i \in DOMAIN g.nodes :
        /\ g.nodes[i] = n
        /\ ~HasIncoming(g, n.id)
        /\ \A k \in 1..(i - 1) : HasIncoming(g, g.nodes[k].id)

\* t is the target of the first edge of g, in declaration order, whose source
\* is id; null when no edge has that source.
IsFirstEdgeTarget(g, id, t) ==
    \/ \E j \in DOMAIN g.edges :
          /\ g.edges[j].source = id
          /\ g.edges[j].target = t
          /\ \A k \in 1..(j - 1) : g.edges[k].source # id
    \/ t = NULL /\ ~HasOutgoing(g, id)

\* The position is null, empty or no node of the graph: the trigger case.
NeedsTrigger(g, position) == ~Truthy(position) \/ ~HasNode(g, position)

\* The stored contact of the handler is as the handler's update left it, or
\* has been written again since.
Persisted(e) ==
    \E i \in DOMAIN contacts :
        /\ contacts[i].id = ev[e].contact.id
        /\ contacts[i].last_active >= ev[e].updated_at
        /\ contacts[i].last_active = ev[e].updated_at
              => contacts[i].current_flow_node_id = ev[e].next_node_id

InboundEntries ==
    {i \in DOMAIN message_logs : message_logs[i].direction = "inbound"}

OutboundEntries(contact_id, text) ==
    {i \in DOMAIN message_logs :
        /\ message_logs[i].direction = "outbound"
        /\ message_logs[i].contact_id = contact_id
        /\ message_logs[i].text = text}

\* The handler made no delivery call, logged no reply and did not write the
\* contact; it logged its inbound message once.
OnlyLoggedInbound(calls) ==
    /\ Count(calls, "log_inbound") = 1
    /\ ~Has(calls, "send")
    /\ ~Has(calls, "log_outbound")
    /\ ~Has(calls, "update")

\* e2 read the contact exactly as e1's update left it, after e1 had executed
\* a node without an outgoing edge, and saw the same graph as e1.
AfterDeadEnd(e1, e2) ==
    /\ e1 # e2
    /\ Processed(e1)
    /\ ~HasOutgoing(ev[e1].flow_data, ev[e1].node.id)
    /\ ev[e2].contact.id = ev[e1].contact.id
    /\ ev[e2].contact.last_active = ev[e1].updated_at
    /\ Resolved(e2)
    /\ ev[e2].flow_data = ev[e1].flow_data

\* ------------------------------------------------------------------ claims

\* C1 as stated: once a contact has executed a node without an outgoing edge,
\* every later inbound event for it, with the active flow unchanged, leaves
\* the saved position at null.
C1_DeadEndStable ==
    \A e1 \in Events, e2 \in Events :
        AfterDeadEnd(e1, e2) /\ Processed(e2) => ev[e2].next_node_id = NULL

\* C1 as amended: the position persisted after a node without an outgoing
\* edge is null, and the next inbound event for that contact (same graph)
\* starts over: it resolves the graph's trigger node and persists the target
\* of that node's first outgoing edge (null only when it has none); when the
\* graph has no trigger node it ends with "No trigger node found.".
C1_DeadEndRestarts ==
    \A e1 \in Events, e2 \in Events :
        AfterDeadEnd(e1, e2) =>
            LET g == ev[e2].flow_data
            IN  /\ ReadPosition(e2) = NULL
                /\ IF HasTrigger(g)
                   THEN /\ IsTriggerOf(g, ev[e2].node)
                        /\ Processed(e2) =>
                              /\ IsFirstEdgeTarget(g, ev[e2].node.id,
                                                   ev[e2].next_node_id)
                              /\ Persisted(e2)
                   ELSE ev[e2].response = "no_trigger_node"

C1_Witness ==
    \E e1 \in Events, e2 \in Events :
        /\ AfterDeadEnd(e1, e2)
        /\ Processed(e2)
        /\ ev[e2].next_node_id # NULL
        /\ \E i \in DOMAIN contacts :
              /\ contacts[i].id = ev[e2].contact.id
              /\ contacts[i].current_flow_node_id = ev[e2].next_node_id

\* C2 as stated: an event whose AI completion or delivery call failed has
\* still written the contact's position, the target of the first outgoing
\* edge of the node it resolved (or null).
C2_FailureStillAdvances ==
    \A e \in Events :
        Failed(e, "UpstreamServiceFailure") =>
            /\ Has(ev[e].calls, "update")
            /\ IsFirstEdgeTarget(ev[e].flow_data, ev[e].node.id,
                                 ev[e].next_node_id)
            /\ Persisted(e)

\* C3: the log holds one inbound entry per handler that has made its inbound
\* log call, no handler makes that call twice, and a handler that ended with
\* no active flow, no trigger node or a node executed has made it once, for
\* the first message of its payload.
C3_OneInboundEntry ==
    /\ Cardinality(InboundEntries) =
          Cardinality({e \in Events : Has(ev[e].calls, "log_inbound")})
    /\ \A i \in InboundEntries : message_logs[i].text \in Texts
    /\ \A e \in Events :
          /\ Count(ev[e].calls, "log_inbound") <= 1
          /\ Done(e) /\ ev[e].response \in
                {"no_active_flow", "no_trigger_node", "processed"} =>
                /\ Count(ev[e].calls, "log_inbound") = 1
                /\ \E i \in InboundEntries :
                      /\ message_logs[i].contact_id = ev[e].contact.id
                      /\ message_logs[i].from_number = ev[e].from_number
                      /\ message_logs[i].text = ev[e].text

C3_Witness ==
    \E e1 \in Events, e2 \in Events :
        /\ Processed(e1)
        /\ Done(e2)
        /\ ev[e2].response = "no_trigger_node"
        /\ Cardinality(InboundEntries) = 2

\* C4: a handler that read a saved position which is no node of the active
\* graph executes a node of that graph without an incoming edge when there is
\* one, and otherwise ends with "No trigger node found."; if it ends by an
\* exception, the exception is that of a later store, AI or delivery call.
C4_SelfHealing ==
    \A e \in Events :
        LET g == ev[e].flow_data
        IN  Resolved(e) /\ Truthy(ReadPosition(e)) /\ ~HasNode(g, ReadPosition(e)) =>
               /\ IF HasTrigger(g)
                  THEN /\ ev[e].node \in NodesOf(g)
                       /\ ~HasIncoming(g, ev[e].node.id)
                       /\ ev[e].response # "no_trigger_node"
                  ELSE Done(e) /\ ev[e].response = "no_trigger_node"
               /\ ev[e].response = "error" =>
                     \/ Failed(e, "StorageUnavailable")
                     \/ Failed(e, "UpstreamServiceFailure")

C4_Witness ==
    \E e \in Events :
        /\ Processed(e)
        /\ Truthy(ReadPosition(e))
        /\ ~HasNode(ev[e].flow_data, ReadPosition(e))
        /\ HasTrigger(ev[e].flow_data)

\* Two handlers read the same contact document and the same graph, and both
\* ran to the end.
SameRead(e1, e2) ==
    /\ e1 # e2
    /\ Processed(e1)
    /\ Processed(e2)
    /\ ev[e1].contact = ev[e2].contact
    /\ ev[e1].flow_data = ev[e2].flow_data

\* C5: two handlers that read the same saved position of a contact both
\* execute the same node and both write the same next position, the target of
\* that node's first outgoing edge: the position advances by one step, and
\* the reply of the node is logged twice.
C5_LostUpdate ==
    \A e1 \in Events, e2 \in Events :
        SameRead(e1, e2) =>
            /\ ev[e1].node = ev[e2].node
            /\ ev[e1].next_node_id = ev[e2].next_node_id
            /\ IsFirstEdgeTarget(ev[e1].flow_data, ev[e1].node.id,
                                 ev[e1].next_node_id)
            /\ Persisted(e1)
            /\ Persisted(e2)
            /\ Truthy(ev[e1].reply_text) =>
                  Cardinality(OutboundEntries(ev[e1].contact.id,
                                              ev[e1].reply_text)) >= 2

C5_Witness ==
    \E e1 \in Events, e2 \in Events :
        /\ SameRead(e1, e2)
        /\ Truthy(ev[e1].reply_text)
        /\ ev[e1].next_node_id # NULL
        /\ Cardinality(OutboundEntries(ev[e1].contact.id, ev[e1].reply_text)) = 2
        /\ \E i \in DOMAIN contacts :
              /\ contacts[i].id = ev[e1].contact.id
              /\ contacts[i].current_flow_node_id = ev[e1].next_node_id

\* C6 as stated: when a store call of an event fails, the message log and
\* the contacts are as they were before the event (checked for an event
\* that ran alone: no other handler has been entered).
C6_NoPartialState ==
    \A e \in Events :
        (Failed(e, "StorageUnavailable")
            /\ (\A d \in Events \ {e} : ev[d].pc = "idle"))
        => (message_logs = << >> /\ contacts \in InitContacts)

\* C7: a handler that read a saved position which is a node of the active
\* graph executes that node, and the position it persists is the target of
\* the first edge, in declaration order, out of that node (null without one).
C7_SavedPositionAdvances ==
    \A e \in Events :
        LET g == ev[e].flow_data
        IN  Resolved(e) /\ Truthy(ReadPosition(e)) /\ HasNode(g, ReadPosition(e)) =>
               /\ ev[e].node \in NodesOf(g)
               /\ ev[e].node.id = ReadPosition(e)
               /\ Processed(e) =>
                     /\ IsFirstEdgeTarget(g, ReadPosition(e), ev[e].next_node_id)
                     /\ Persisted(e)

C7_Witness ==
    \E e \in Events :
        LET g == ev[e].flow_data
        IN  /\ Processed(e)
            /\ HasNode(g, ReadPosition(e))
            /\ \E j \in DOMAIN g.edges, k \in DOMAIN g.edges :
                  /\ j < k
                  /\ g.edges[j].source = ReadPosition(e)
                  /\ g.edges[k].source = ReadPosition(e)
                  /\ g.edges[j].target # g.edges[k].target
                  /\ ev[e].next_node_id = g.edges[j].target

\* The handler resolved a node in the trigger case.
TriggerCase(e) ==
    /\ Resolved(e)
    /\ NeedsTrigger(ev[e].flow_data, ReadPosition(e))
    /\ ev[e].node # NoNode

\* C8: when the saved position is null or no node of the active graph, the
\* node resolved is the first node in declaration order that is the target of
\* no edge; two handlers that see the same graph resolve the same node.
C8_TriggerFirstInOrder ==
    /\ \A e \in Events :
          TriggerCase(e) => IsTriggerOf(ev[e].flow_data, ev[e].node)
    /\ \A e1 \in Events, e2 \in Events :
          TriggerCase(e1) /\ TriggerCase(e2) /\ ev[e1].flow_data = ev[e2].flow_data
             => ev[e1].node = ev[e2].node

C8_Witness ==
    \E e \in Events :
        LET g == ev[e].flow_data
        IN  /\ TriggerCase(e)
            /\ ev[e].node # g.nodes[1]
            /\ \E i \in DOMAIN g.nodes :
                  /\ g.nodes[i] # ev[e].node
                  /\ ~HasIncoming(g, g.nodes[i].id)

NoFlowActive == \A i \in DOMAIN flows : ~flows[i].is_active

\* The graph of the flow find_one({"is_active": True}) returns.
IsActiveGraph(g) ==
    \E i \in DOMAIN flows :
        /\ flows[i].is_active
        /\ flows[i].flow_data = g
        /\ \A k \in 1..(i - 1) : ~flows[k].is_active

\* The handler e reads the active flow in this step, and the read succeeds.
ReadsActiveFlow(e) ==
    /\ ev[e].pc = "find_flow"
    /\ ev'[e].pc # "find_flow"
    /\ ev'[e].response # "error"

\* The handler e ends in this step having done nothing but log its inbound
\* message: the store is as it was.
EndsIdle(e, response) ==
    /\ ev'[e].pc = "done"
    /\ ev'[e].response = response
    /\ OnlyLoggedInbound(ev'[e].calls)
    /\ \E i \in InboundEntries :
          /\ message_logs[i].contact_id = ev[e].contact.id
          /\ message_logs[i].text = ev[e].text
    /\ UNCHANGED << contacts, flows, message_logs, clock >>

\* C9: a handler that finds no active flow ends there with "No active flow.":
\* it has logged its inbound message, made no delivery call, logged no reply
\* and left the contacts as they were; once ended it does nothing more.
C9_NoActiveFlowIdle ==
    [][\A e \in Events :
          /\ ReadsActiveFlow(e) /\ NoFlowActive => EndsIdle(e, "no_active_flow")
          /\ Done(e) /\ ev[e].response = "no_active_flow" => ev'[e] = ev[e]]_vars

C9_Witness ==
    \E e \in Events :
        /\ Done(e)
        /\ ev[e].response = "no_active_flow"
        /\ flows # << >>

\* C10: a handler whose saved position is null or no node of the active
\* graph, and whose active graph has no node without an incoming edge, ends
\* with "No trigger node found.": it has logged its inbound message, made no
\* delivery call, logged no reply and left the contacts as they were.
C10_NoTriggerIdle ==
    [][\A e \in Events, g \in Graphs :
          /\ ReadsActiveFlow(e)
             /\ IsActiveGraph(g)
             /\ ~HasTrigger(g)
             /\ NeedsTrigger(g, ReadPosition(e))
             => EndsIdle(e, "no_trigger_node")
          /\ Done(e) /\ ev[e].response = "no_trigger_node" => ev'[e] = ev[e]]_vars

C10_Witness ==
    \E e \in Events :
        /\ Done(e)
        /\ ev[e].response = "no_trigger_node"
        /\ ev[e].flow_data.nodes # << >>
        /\ \E i \in DOMAIN contacts : contacts[i] = ev[e].contact
        /\ Len(message_logs) = 1

\* C11 as stated: the saved position of every contact is null or the id of
\* a node of some graph the store has held (every graph of the model is in
\* Graphs).
C11_PositionWasANode ==
    \A i \in DOMAIN contacts :
        \/ contacts[i].current_flow_node_id = NULL
        \/ \E g \in Graphs : HasNode(g, contacts[i].current_flow_node_id)

\* The delivery call of the handler raised: the handler had a non-empty reply
\* to send and ended by the exception of the upstream call.
DeliveryFailed(e) ==
    /\ Failed(e, "UpstreamServiceFailure")
    /\ Truthy(ev[e].reply_text)

\* C12 as stated: a handler whose delivery call failed has still appended
\* the outbound log entry of the reply.
C12_FailedDeliveryLogged ==
    \A e \in Events :
        DeliveryFailed(e) =>
            /\ Has(ev[e].calls, "log_outbound")
            /\ OutboundEntries(ev[e].contact.id, ev[e].reply_text) # {}

\* The handler answered {"status": "ok", ...}.
Acknowledged(e) ==
    /\ Done(e)
    /\ ev[e].response \in {"no_active_flow", "no_trigger_node", "processed"}

\* C13 as stated: a handler that has appended its inbound log entry
\* eventually answers ok, whatever the AI and the delivery call do (a later
\* failure of the store is left aside).
C13_AlwaysAcknowledged ==
    \A e \in Events :
        Has(ev[e].calls, "log_inbound") ~>
            (Acknowledged(e) \/ Failed(e, "StorageUnavailable"))

ActiveFlows == {i \in DOMAIN flows : flows[i].is_active}

\* C14 as stated: at most one stored flow is active, in every state the
\* flow CRUD requests reach in any interleaving.
C14_AtMostOneActive == Cardinality(ActiveFlows) <= 1

\* The handler e takes this step.
StepsEvent(e) == ev'[e] # ev[e]

\* The stored contact i is written in this step.
ContactWritten(i) == i \in DOMAIN contacts' /\ contacts'[i] # contacts[i]

\* The entries this step appends to the message log.
NewEntries == {i \in DOMAIN message_logs' : i > Len(message_logs)}

PhoneOf(id) == FindContactById(contacts', id).phone_number

\* C15: a step of the handler of an event keeps every stored contact it
\* does not own as it is (the only contact written is the one the handler
\* read, a contact of the event's phone number), removes no contact and no
\* log entry, and the log entry it appends carries the id of that contact.
C15_OtherContactsUntouched ==
    [][\A e \in Events :
          StepsEvent(e) =>
             /\ Len(contacts') >= Len(contacts)
             /\ \A i \in DOMAIN contacts :
                   ContactWritten(i) =>
                      /\ contacts[i].id = ev[e].contact.id
                      /\ contacts[i].phone_number = ev[e].from_number
                      /\ contacts'[i].phone_number = contacts[i].phone_number
             /\ SubSeq(message_logs', 1, Len(message_logs)) = message_logs
             /\ \A i \in NewEntries :
                   /\ message_logs'[i].contact_id = ev[e].contact.id
                   /\ message_logs'[i].from_number = ev[e].from_number
                   /\ PhoneOf(message_logs'[i].contact_id) = ev[e].from_number]_vars

\* Two handlers, of events of different phone numbers, ran to the end while
\* both were in flight, and each contact holds what its own handler wrote.
C15_Witness ==
    \E e1 \in Events, e2 \in Events :
        /\ Processed(e1)
        /\ Processed(e2)
        /\ ev[e1].from_number # ev[e2].from_number
        /\ \E i \in InboundEntries :
              /\ message_logs[i].contact_id = ev[e2].contact.id
              /\ message_logs[i].timestamp < ev[e1].updated_at
        /\ ev[e1].updated_at < ev[e2].updated_at
        /\ \A e \in {e1, e2} : \E i \in DOMAIN contacts :
              /\ contacts[i].id = ev[e].contact.id
              /\ contacts[i].last_active = ev[e].updated_at
              /\ contacts[i].current_flow_node_id = ev[e].next_node_id
        /\ ev[e1].next_node_id # ev[e2].next_node_id

\* The entries of the contact in the log.
Mine(logs, contact_id) == {i \in DOMAIN logs : logs[i].contact_id = contact_id}

\* The entries of the contact logged after entry i.
Newer(logs, contact_id, i) ==
    {j \in Mine(logs, contact_id) : logs[j].timestamp > logs[i].timestamp}

\* The entries of the contact with fewer than limit entries after them.
Recent(logs, contact_id, limit) ==
    {i \in Mine(logs, contact_id) : Cardinality(Newer(logs, contact_id, i)) < limit}

\* h is the history of the contact: one {role, content} per recent entry
\* and nothing else, the newest entry last.
IsHistory(logs, contact_id, limit, h) ==
    /\ Len(h) <= limit
    /\ Len(h) = Cardinality(Recent(logs, contact_id, limit))
    /\ \A i \in Recent(logs, contact_id, limit) :
          LET k == Len(h) - Cardinality(Newer(logs, contact_id, i))
          IN  /\ h[k].content = logs[i].text
              /\ h[k].role = IF logs[i].direction = "inbound" THEN "user"
                             ELSE "assistant"
              /\ logs[i].direction \in {"inbound", "outbound"}

\* C16: a call of get_chat_history for a contact and a limit returns the
\* entries of that contact only, at most limit of them, the most recent by
\* timestamp, oldest first, inbound entries as role user and outbound ones
\* as role assistant, and leaves the store as it is.
C16_HistoryContract ==
    [][\A e \in Events, contact_id \in DOMAIN contacts, limit \in Limits :
          HistoryCall(e, contact_id, limit) =>
             /\ IsHistory(message_logs, contact_id, limit, ev'[e].history)
             /\ UNCHANGED << contacts, flows, message_logs, clock >>]_vars

\* A call returned limit entries of a contact that has more, among the
\* entries of another contact, the log not being in timestamp order, and the
\* entries returned are of both directions.
C16_Witness ==
    \E e \in Events :
        LET c == ev[e].contact.id
            h == ev[e].history
        IN  /\ Has(ev[e].calls, "history")
            /\ Len(h) = MaxLimit
            /\ Cardinality(Mine(message_logs, c)) > MaxLimit
            /\ \E i \in DOMAIN message_logs : message_logs[i].contact_id # c
            /\ \E i \in Mine(message_logs, c), j \in Mine(message_logs, c) :
                  i < j /\ message_logs[i].timestamp > message_logs[j].timestamp
            /\ h[1].role # h[2].role

\* Every call `first` of the trace comes before every call `second`.
Before(calls, first, second) ==
    \A i \in DOMAIN calls, j \in DOMAIN calls :
        calls[i] = first /\ calls[j] = second => i < j

\* C17: in the trace of the calls of one handler, each step occurs at most
\* once; the inbound log call comes before the node is resolved; a delivery
\* call is made only for a non-empty reply and after the node is resolved;
\* the outbound log call follows a delivery call; the contact is written
\* last, after both, and by then the delivery call and the outbound log call
\* have been made exactly when the reply is non-empty.  One node is resolved
\* and one position is written per event.
C17_StepOrder ==
    \A e \in Events :
        LET calls == ev[e].calls
        IN  /\ \A what \in {"log_inbound", "find_flow", "history", "ai", "send",
                            "log_outbound", "update"} : Count(calls, what) <= 1
            /\ Has(calls, "find_flow") =>
                  Has(calls, "log_inbound") /\ Before(calls, "log_inbound", "find_flow")
            /\ Has(calls, "send") =>
                  /\ Has(calls, "find_flow")
                  /\ Before(calls, "find_flow", "send")
                  /\ Truthy(ev[e].reply_text)
            /\ Has(calls, "log_outbound") =>
                  /\ Has(calls, "send")
                  /\ Before(calls, "send", "log_outbound")
                  /\ OutboundEntries(ev[e].contact.id, ev[e].reply_text) # {}
            /\ Has(calls, "update") =>
                  /\ calls[Len(calls)] = "update"
                  /\ Has(calls, "find_flow")
                  /\ ev[e].node # NoNode
                  /\ Truthy(ev[e].reply_text) <=>
                        (Count(calls, "send") = 1 /\ Count(calls, "log_outbound") = 1)
                  /\ Has(calls, "send") <=> Has(calls, "log_outbound")

\* One handler ran an aiResponse node to the end with all its steps, another
\* ran a node without a reply to the end.
C17_Witness ==
    \E e1 \in Events, e2 \in Events :
        /\ Processed(e1)
        /\ ev[e1].calls = << "find_contact", "log_inbound", "find_flow", "history",
                             "ai", "send", "log_outbound", "update" >>
        /\ Processed(e2)
        /\ ev[e2].calls = << "find_contact", "log_inbound", "find_flow", "update" >>

\* The node produces no reply: its type is unknown to the executor, or it is
\* a textMessage whose message is null or empty.
NoReplyNode(node) ==
    /\ node # NoNode
    /\ \/ node.type \notin {"textMessage", "aiResponse"}
       \/ node.type = "textMessage" /\ ~Truthy(node.message)

\* C18: a handler that resolved a node without a reply makes no delivery
\* call and no outbound log call; it ends by writing the contact's position,
\* the target of the first edge out of the node (null without one), unless
\* the store fails.
C18_NoReplyStillAdvances ==
    \A e \in Events :
        Resolved(e) /\ NoReplyNode(ev[e].node) =>
            /\ ~Has(ev[e].calls, "send")
            /\ ~Has(ev[e].calls, "log_outbound")
            /\ \A i \in DOMAIN message_logs :
                  message_logs[i].direction = "outbound" =>
                     \E d \in Events \ {e} : Has(ev[d].calls, "log_outbound")
            /\ Done(e) => Processed(e) \/ Failed(e, "StorageUnavailable")
            /\ Processed(e) =>
                  /\ IsFirstEdgeTarget(ev[e].flow_data, ev[e].node.id,
                                       ev[e].next_node_id)
                  /\ Persisted(e)

\* A node of unknown type and then a textMessage without a message were
\* executed: nothing was sent or logged as sent, and the position moved on
\* twice.
C18_Witness ==
    \E e1 \in Events, e2 \in Events :
        /\ Processed(e1)
        /\ Processed(e2)
        /\ ev[e1].node.type = "delay"
        /\ ev[e2].node.type = "textMessage"
        /\ NoReplyNode(ev[e2].node)
        /\ ev[e2].contact.current_flow_node_id = ev[e1].next_node_id
        /\ ev[e2].next_node_id # NULL
        /\ \E i \in DOMAIN contacts :
              contacts[i].current_flow_node_id = ev[e2].next_node_id
        /\ \A i \in DOMAIN message_logs : message_logs[i].direction = "inbound"

\* C19 as stated: no two stored contacts have the same phone number.
C19_OneContactPerPhone ==
    \A i \in DOMAIN contacts, j \in DOMAIN contacts :
        contacts[i].phone_number = contacts[j].phone_number => i = j

\* The handler e writes the contact's position in this step.
WritesPosition(e) == ev[e].pc = "update" /\ ev'[e].response = "processed"

\* C20: a handler reads the active flow once, and what it reads is the flow
\* active in the store at that moment; from then on its graph and its node
\* stay what they were, whatever happens to the stored flows; the position it
\* writes is the target of the first edge out of its node in that graph
\* (null without one), and its node is a node of that graph.
C20_SingleFlowSnapshot ==
    [][\A e \in Events :
          /\ Count(ev'[e].calls, "find_flow") <= 1
          /\ ReadsActiveFlow(e) /\ ~NoFlowActive =>
                /\ IsActiveGraph(ev'[e].flow_data)
                /\ ev'[e].node # NoNode => ev'[e].node \in NodesOf(ev'[e].flow_data)
          /\ Has(ev[e].calls, "find_flow") =>
                /\ ev'[e].flow_data = ev[e].flow_data
                /\ ev'[e].node = ev[e].node
          /\ WritesPosition(e) =>
                /\ Count(ev'[e].calls, "find_flow") = 1
                /\ ev[e].node \in NodesOf(ev[e].flow_data)
                /\ IsFirstEdgeTarget(ev[e].flow_data, ev[e].node.id,
                                     ev'[e].next_node_id)
                /\ \E i \in DOMAIN contacts' :
                      /\ contacts'[i].id = ev[e].contact.id
                      /\ contacts'[i].current_flow_node_id = ev'[e].next_node_id]_vars

\* The active flow was changed while e1 was suspended between its flow read
\* and its write: e2 logged its inbound message after e1 had logged its
\* reply, read another graph than e1 and wrote the contact before e1 did;
\* e1 then wrote the edge target of its own graph, which is not the one the
\* graph e2 read has for that node.
C20_Witness ==
    \E e1 \in Events, e2 \in Events :
        /\ Processed(e1)
        /\ Processed(e2)
        /\ ev[e1].flow_data # ev[e2].flow_data
        /\ ev[e1].reply_text # ev[e2].reply_text
        /\ \E i \in OutboundEntries(ev[e1].contact.id, ev[e1].reply_text),
              j \in InboundEntries :
              message_logs[i].timestamp < message_logs[j].timestamp
        /\ ev[e2].updated_at < ev[e1].updated_at
        /\ ev[e1].next_node_id # NULL
        /\ ev[e1].next_node_id # NextNodeId(ev[e2].flow_data, ev[e1].node.id)
        /\ \E i \in DOMAIN contacts :
              /\ contacts[i].id = ev[e1].contact.id
              /\ contacts[i].current_flow_node_id = ev[e1].next_node_id

\* The request a was answered 404 "Flow not found", and it is the only
\* request the store has seen.
NotFoundAlone(a) ==
    /\ adm[a].pc = "done"
    /\ adm[a].response = "not_found"
    /\ \A b \in Admins \ {a} : adm[b].pc = "idle"

\* C21 as stated: after a request that found no flow of its id, the stored
\* flows are what they were when the service started, and the flow that was
\* active is still active.
C21_NotFoundLeavesFlows ==
    \A a \in Admins :
        NotFoundAlone(a) => flows \in InitFlows /\ ~NoFlowActive

====
